---- MODULE Spec2Model ----
(***************************************************************************)
(* Session lifecycle and streaming delivery of the R2R chatbot             *)
(* microservice (src/chatbot_service.py) and of its backend facade         *)
(* R2RChatbot (src/main.py).                                               *)
(*                                                                         *)
(* The service runs on one asyncio event loop: the code between two awaits *)
(* (or two yields of the response generator) runs without interleaving, so *)
(* every action below is one such stretch of code.  Time is counted in     *)
(* minutes.  Strings are sequences of one-character strings; None and the  *)
(* empty string are both the empty sequence (both are falsy in the code).  *)
(***************************************************************************)
EXTENDS Integers, Sequences, FiniteSets, TLC

VARIABLES
    now,             \* datetime.now(), in minutes
    active_sessions, \* chatbot_service.active_sessions: session id -> ChatSession
    chatbots,        \* the R2RChatbot object of every session ever created
    nextId,          \* how many session ids uuid4 has handed out
    deleteTasks,     \* the delete_document task created for each session
    documents,       \* backend: ids of the documents it stores
    convCreated,     \* backend: the conversations it created, per session facade
    files,           \* owners whose docs/job_applications_user_<id>.md exists
    initReq,         \* the initialize-chat request in flight
    requests,        \* the send-message requests
    reaperPc,        \* position of the cleanup_expired_sessions task
    evicted          \* history: which caller of cleanup_session removed a session

vars == <<now, active_sessions, chatbots, nextId, deleteTasks, documents,
          convCreated, files, initReq, requests, reaperPc, evicted>>

----------------------------------------------------------------------------
(* Bounds of the model *)

MaxSessions == 2
MaxTicks == 3
MaxReplyLen == 3
MaxIdLen == 2

(* Program constants *)

SESSION_TIMEOUT == 30

----------------------------------------------------------------------------
(* Values *)

None == <<>>
NoSession == 0

SessionIds == 1..MaxSessions
RequestIds == {1, 2}
UserIds == {1, 2}

\* the time steps the model takes: half a timeout and a whole one
TimeSteps == {SESSION_TIMEOUT \div 2, SESSION_TIMEOUT}
MaxTime == MaxTicks * (SESSION_TIMEOUT \div 2)

Truthy(x) == x # <<>>

RECURSIVE SeqsUpTo(_, _)
SeqsUpTo(S, n) ==
    IF n = 0 THEN {<<>>}
    ELSE LET shorter == SeqsUpTo(S, n - 1)
         IN  shorter \cup {Append(s, c) : s \in shorter, c \in S}

ReplyAlphabet == {"a", "b", " ", "\n"}
\* the replies of the backend: every string up to MaxReplyLen, and, where
\* several requests run at once, an empty, a blank, a one-word and a
\* two-word reply
StreamReplies == SeqsUpTo(ReplyAlphabet, MaxReplyLen)
Replies == {<<>>, <<" ">>, <<"a">>, <<"a", " ", "b">>}

\* mutant: the character class also takes the letter o
HexChars_with_o == {"a", "b", "c", "d", "e", "f", "0", "1", "2", "3", "4",
                    "5", "6", "7", "8", "9", "-", "o"}

HexChars == {"a", "b", "c", "d", "e", "f", "0", "1", "2", "3", "4", "5",
             "6", "7", "8", "9", "-"}
\* the reply "Hi there friend" of the streaming scenario
HiThereFriend == <<"H", "i", " ", "t", "h", "e", "r", "e", " ",
                   "f", "r", "i", "e", "n", "d">>

\* document ids of the backend: one in the form of a UUID, and "doc-123"
HexDocId == <<"a", "1">>
DocIds == {HexDocId, <<"d", "o", "c", "-", "1", "2", "3">>}

----------------------------------------------------------------------------
(* ChatSession *)

\* ChatSession.__init__
\* (created_at and is_active are written here and never read by the
\* session logic; they are left out)
ChatSession(user_id, t) == [user_id |-> user_id, last_activity |-> t]

\* mutant: expired from the timeout on, not only after it
is_expired_at_timeout(session, t) ==
    t - session.last_activity >= SESSION_TIMEOUT

\* ChatSession.is_expired
is_expired(session, t) == t - session.last_activity > SESSION_TIMEOUT

\* ChatSession.update_activity
update_activity(session, t) == [session EXCEPT !.last_activity = t]

\* R2RChatbot.__init__ (document_path is determined by user_id)
R2RChatbot(user_id) ==
    [user_id |-> user_id, client |-> TRUE,
     document_id |-> None, conversation_id |-> None]

NoTask == [pc |-> "none", doc_id |-> None, invoked |-> 0]

----------------------------------------------------------------------------
(* Session management functions, as functions of the store state           *)
(* st = [sessions, tasks]                                                  *)

Store == [sessions |-> active_sessions, tasks |-> deleteTasks]

Without(f, k) == [x \in DOMAIN f \ {k} |-> f[x]]

\* mutant: the session is removed and no delete_document task is created
cleanup_session_no_task(st, session_id) ==
    IF session_id \in DOMAIN st.sessions
    THEN [st EXCEPT !.sessions = Without(@, session_id)]
    ELSE st

\* mutant: the delete_document task is created and the entry is kept
cleanup_session_keep_entry(st, session_id) ==
    IF session_id \in DOMAIN st.sessions
    THEN [st EXCEPT !.tasks[session_id] =
                       [pc |-> "scheduled", doc_id |-> None,
                        invoked |-> @.invoked + 1]]
    ELSE st

\* mutant: the task is created without looking whether the session is there
cleanup_session_unguarded(st, session_id) ==
    [sessions |-> Without(st.sessions, session_id),
     tasks |-> [id \in DOMAIN st.tasks |->
                  IF id = session_id
                  THEN [pc |-> "scheduled", doc_id |-> None,
                        invoked |-> st.tasks[id].invoked + 1]
                  ELSE st.tasks[id]]]

\* cleanup_session
cleanup_session(st, session_id) ==
    IF session_id \in DOMAIN st.sessions
    THEN [sessions |-> Without(st.sessions, session_id),
          tasks |-> [st.tasks EXCEPT
                       ![session_id] = [pc |-> "scheduled", doc_id |-> None,
                                        invoked |-> @.invoked + 1]]]
    ELSE st

\* mutant: the session is returned whether expired or not
get_session_ret_no_expiry(st, session_id, t) ==
    IF session_id \in DOMAIN st.sessions THEN session_id ELSE NoSession

\* get_session: the session returned (NoSession for None)
get_session_ret(st, session_id, t) ==
    IF session_id \in DOMAIN st.sessions
       /\ ~is_expired(st.sessions[session_id], t)
    THEN session_id
    ELSE NoSession

\* mutant: update_activity is not called
get_session_no_refresh(st, session_id, t) ==
    IF session_id \in DOMAIN st.sessions
       /\ is_expired(st.sessions[session_id], t)
    THEN cleanup_session(st, session_id)
    ELSE st

\* get_session: the store afterwards
get_session(st, session_id, t) ==
    IF session_id \in DOMAIN st.sessions
       /\ ~is_expired(st.sessions[session_id], t)
    THEN [st EXCEPT !.sessions[session_id] = update_activity(@, t)]
    ELSE IF session_id \in DOMAIN st.sessions
            /\ is_expired(st.sessions[session_id], t)
         THEN cleanup_session(st, session_id)
         ELSE st

\* mutant: the list comprehension finds no session expired
expired_sessions_none(st, t) == {}

\* the list comprehension of cleanup_expired_sessions
expired_sessions(st, t) ==
    {id \in DOMAIN st.sessions : is_expired(st.sessions[id], t)}

\* mutant: the loop cleans nothing up
cleanup_all_nothing(st, ids) == st

\* mutant: when a session has expired the whole store is cleaned up
cleanup_all_clears(st, ids) ==
    IF ids = {} THEN st
    ELSE [sessions |-> <<>>,
          tasks |-> [id \in DOMAIN st.tasks |->
                       IF id \in DOMAIN st.sessions
                       THEN [pc |-> "scheduled", doc_id |-> None,
                             invoked |-> st.tasks[id].invoked + 1]
                       ELSE st.tasks[id]]]

\* mutant: the loop ends after the first session it cleans up
cleanup_all_first(st, ids) ==
    IF ids = {} THEN st
    ELSE cleanup_session(st, CHOOSE x \in ids : \A y \in ids : x <= y)

\* the for loop of cleanup_expired_sessions
RECURSIVE cleanup_all(_, _)
cleanup_all(st, ids) ==
    IF ids = {} THEN st
    ELSE LET id == CHOOSE x \in ids : \A y \in ids : x <= y
         IN  cleanup_all(cleanup_session(st, id), ids \ {id})

----------------------------------------------------------------------------
(* R2RChatbot.upload_document_to_r2r: recovery of the id of an existing    *)
(* document from the backend's error message                               *)

DocumentPrefix == <<"D", "o", "c", "u", "m", "e", "n", "t", " ">>
AlreadyExistsSuffix == <<" ", "a", "l", "r", "e", "a", "d", "y", " ", "e", "x", "i", "s", "t", "s">>

\* str(e) of the backend's "already exists" failure for document d
AlreadyExistsError(d) == DocumentPrefix \o d \o AlreadyExistsSuffix

StartsWithAt(s, i, lit) ==
    /\ i + Len(lit) - 1 <= Len(s)
    /\ \A k \in 1..Len(lit) : s[i + k - 1] = lit[k]

Contains(s, lit) == \E i \in 1..Len(s) : StartsWithAt(s, i, lit)

\* the length of the longest run of [a-f0-9-] that starts at s[i]
RECURSIVE HexRun(_, _)
HexRun(s, i) ==
    IF i <= Len(s) /\ s[i] \in HexChars THEN 1 + HexRun(s, i + 1) ELSE 0

\* re.search(r'Document ([a-f0-9-]+) already exists', s) matches at i
\* (the suffix starts with a space, which ends the run of [a-f0-9-])
MatchesAt(s, i) ==
    /\ StartsWithAt(s, i, DocumentPrefix)
    /\ HexRun(s, i + Len(DocumentPrefix)) >= 1
    /\ StartsWithAt(s, i + Len(DocumentPrefix)
                        + HexRun(s, i + Len(DocumentPrefix)),
                    AlreadyExistsSuffix)

\* match.group(1) of the leftmost match, None when there is no match
uuid_pattern_search(s) ==
    IF \E i \in 1..Len(s) : MatchesAt(s, i)
    THEN LET i == CHOOSE j \in 1..Len(s) :
                      MatchesAt(s, j) /\ \A k \in 1..(j - 1) : ~MatchesAt(s, k)
             from == i + Len(DocumentPrefix)
         IN  SubSeq(s, from, from + HexRun(s, from) - 1)
    ELSE None

\* the except branch of upload_document_to_r2r: the document id returned
upload_recover(error_str) ==
    IF Contains(error_str, <<"a", "l", "r", "e", "a", "d", "y", " ", "e", "x", "i", "s", "t", "s">>)
    THEN IF Contains(error_str, <<"D", "o", "c", "u", "m", "e", "n", "t">>)
         THEN uuid_pattern_search(error_str)
         ELSE None
    ELSE None

----------------------------------------------------------------------------
(* send-message: the chunks of generate_response                           *)

\* str.isspace for the characters of the model
Whitespace == {" ", "\t", "\n", "\r"}
IsSpace(c) == c \in Whitespace

\* str.split(): the maximal runs of non-whitespace characters, in order
RECURSIVE SplitFrom(_, _, _)
SplitFrom(s, i, cur) ==
    IF i > Len(s)
    THEN IF cur = <<>> THEN <<>> ELSE <<cur>>
    ELSE IF IsSpace(s[i])
         THEN IF cur = <<>>
              THEN SplitFrom(s, i + 1, <<>>)
              ELSE <<cur>> \o SplitFrom(s, i + 1, <<>>)
         ELSE SplitFrom(s, i + 1, Append(cur, s[i]))

\* mutant: a last word that no whitespace follows is lost
RECURSIVE SplitFrom_drop_last(_, _, _)
SplitFrom_drop_last(s, i, cur) ==
    IF i > Len(s)
    THEN <<>>
    ELSE IF IsSpace(s[i])
         THEN IF cur = <<>>
              THEN SplitFrom_drop_last(s, i + 1, <<>>)
              ELSE <<cur>> \o SplitFrom_drop_last(s, i + 1, <<>>)
         ELSE SplitFrom_drop_last(s, i + 1, Append(cur, s[i]))

split_drop_last(s) == SplitFrom_drop_last(s, 1, <<>>)

split(s) == SplitFrom(s, 1, <<>>)

\* mutant: is_final compares the index with len(words)
content_chunk_never_final(words, i) ==
    [type |-> "content",
     data |-> [text |-> words[i] \o <<" ">>],
     is_final |-> (i - 1 = Len(words))]

\* mutant: is_final marks the first word
content_chunk_first_final(words, i) ==
    [type |-> "content",
     data |-> [text |-> words[i] \o <<" ">>],
     is_final |-> (i - 1 = 0)]

\* the content chunk of word i (1-based here, i - 1 in the code)
content_chunk(words, i) ==
    [type |-> "content",
     data |-> [text |-> words[i] \o <<" ">>],
     is_final |-> (i - 1 = Len(words) - 1)]

\* final_chunk
metadata_chunk(chatbot, session_id) ==
    [type |-> "metadata",
     data |-> [conversation_id |-> chatbot.conversation_id,
               document_id |-> chatbot.document_id,
               session_id |-> session_id],
     is_final |-> TRUE]

\* error_chunk (both places)
error_chunk ==
    [type |-> "error", data |-> [message |-> "error"], is_final |-> TRUE]

IdleRequest ==
    [pc |-> "idle", session_id |-> NoSession, doc_id |-> None,
     conv_id |-> None, outcome |-> "none", response |-> None,
     chunks |-> <<>>, backend_calls |-> 0]

\* history: the sessions that left the store in a step are put down to
\* `caller`
Removed(sessions_after, caller) ==
    [id \in DOMAIN evicted \cup (DOMAIN active_sessions \ DOMAIN sessions_after)
        |-> IF id \in DOMAIN evicted THEN evicted[id] ELSE caller]

----------------------------------------------------------------------------
(* Initial state: the process after startup_event, no session yet          *)

Init ==
    /\ now = 0
    /\ active_sessions = <<>>
    /\ chatbots = <<>>
    /\ nextId = 0
    /\ deleteTasks = [id \in SessionIds |-> NoTask]
    /\ documents = {}
    /\ convCreated = [id \in SessionIds |-> 0]
    /\ files = {}
    /\ initReq = [pc |-> "idle", user_id |-> 0]
    /\ requests = [r \in RequestIds |-> IdleRequest]
    /\ reaperPc = "scan"
    /\ evicted = <<>>

----------------------------------------------------------------------------
(* Time: asyncio.sleep(300) of the Reaper is over after every step of time *)

Tick(d) ==
    /\ now + d <= MaxTime
    /\ now' = now + d
    /\ reaperPc' = "scan"
    /\ UNCHANGED <<active_sessions, chatbots, nextId, deleteTasks, documents,
                   convCreated, files, initReq, requests, evicted>>

----------------------------------------------------------------------------
(* initialize_chat *)

\* create_session: the store with the new session
create_session(sessions, session_id, user_id, t) ==
    [id \in DOMAIN sessions \cup {session_id} |->
        IF id = session_id THEN ChatSession(user_id, t) ELSE sessions[id]]

\* initialize_chat up to the await of client.documents.create
\* client_ok: R2R_API_KEY is set; generated: generate_application_document
\* did not raise
InitializeChatBegin(user_id, client_ok, generated) ==
    /\ initReq.pc = "idle"
    /\ nextId < MaxSessions
    /\ IF ~client_ok
       THEN \* chatbot.client is None: HTTPException(500)
            UNCHANGED <<files, initReq>>
       ELSE IF ~generated
       THEN \* the exception is turned into HTTPException(500)
            UNCHANGED <<files, initReq>>
       ELSE /\ files' = files \cup {user_id}
            /\ initReq' = [pc |-> "uploading", user_id |-> user_id]
    /\ UNCHANGED <<now, active_sessions, chatbots, nextId, deleteTasks,
                   documents, convCreated, reaperPc, evicted, requests>>

\* upload_document_to_r2r after the await: the document id it returns
\* result: [kind |-> "created" | "exists" | "error", id |-> document id]
upload_document_to_r2r(result) ==
    IF result.kind = "created" THEN result.id
    ELSE IF result.kind = "exists"
         THEN upload_recover(AlreadyExistsError(result.id))
         ELSE None

UploadResults(docs) ==
    {[kind |-> "created", id |-> d] : d \in docs \ documents}
    \cup {[kind |-> "exists", id |-> d] : d \in documents}
    \cup {[kind |-> "error", id |-> None]}

\* mutant: the session is created whatever the upload returned
initialize_chat_no_check(sessions, session_id, user_id, document_id, t) ==
    [status |-> "success",
     sessions |-> create_session(sessions, session_id, user_id, t)]

\* initialize_chat once upload_document_to_r2r has returned document_id: the
\* answer ("error" for the HTTPException) and the store afterwards
initialize_chat(sessions, session_id, user_id, document_id, t) ==
    IF ~Truthy(document_id)
    THEN [status |-> "error", sessions |-> sessions]
    ELSE [status |-> "success",
          sessions |-> create_session(sessions, session_id, user_id, t)]

\* initialize_chat from the return of client.documents.create
InitializeChatUpload(result) ==
    /\ initReq.pc = "uploading"
    /\ LET document_id == upload_document_to_r2r(result)
           session_id == nextId + 1
           answer == initialize_chat(active_sessions, session_id,
                                     initReq.user_id, document_id, now)
       IN  /\ documents' = IF result.kind = "created"
                           THEN documents \cup {result.id} ELSE documents
           /\ active_sessions' = answer.sessions
           /\ IF answer.status = "error"
              THEN \* HTTPException(500)
                   UNCHANGED <<chatbots, nextId>>
              ELSE /\ nextId' = session_id
                   /\ chatbots' =
                        [id \in DOMAIN chatbots \cup {session_id} |->
                           IF id = session_id
                           THEN [R2RChatbot(initReq.user_id)
                                   EXCEPT !.document_id = document_id]
                           ELSE chatbots[id]]
    /\ initReq' = [pc |-> "idle", user_id |-> 0]
    /\ UNCHANGED <<now, deleteTasks, convCreated, files, requests, reaperPc,
                   evicted>>

----------------------------------------------------------------------------
(* close_chat, get_session_status, health_check: handlers without await    *)

\* mutant: the session is cleaned up and success answered without looking
\* it up
close_chat_no_lookup(st, session_id, t) ==
    [store |-> cleanup_session(st, session_id), status |-> "success"]

\* close_chat: the store afterwards and the answer ("not_found" for the 404)
close_chat(st, session_id, t) ==
    LET st1 == get_session(st, session_id, t)
        session == get_session_ret(st, session_id, t)
    IN  IF session = NoSession
        THEN [store |-> st1, status |-> "not_found"]
        ELSE [store |-> cleanup_session(st1, session_id),
              status |-> "success"]

CloseChat(session_id) ==
    /\ LET answer == close_chat(Store, session_id, now)
       IN  /\ active_sessions' = answer.store.sessions
           /\ deleteTasks' = answer.store.tasks
           /\ evicted' = Removed(answer.store.sessions,
                                 IF answer.status = "not_found"
                                 THEN "get_session" ELSE "close_chat")
    /\ UNCHANGED <<now, chatbots, nextId, documents, convCreated, files,
                   initReq, requests, reaperPc>>

SessionStatus(session_id) ==
    /\ LET st1 == get_session(Store, session_id, now)
           session == get_session_ret(Store, session_id, now)
       IN  /\ active_sessions' = st1.sessions
           /\ deleteTasks' = st1.tasks
           /\ evicted' = Removed(st1.sessions, "get_session")
    /\ UNCHANGED <<now, chatbots, nextId, documents, convCreated, files,
                   initReq, requests, reaperPc>>

\* mutant: the entries that are expired are not counted
health_check_unexpired ==
    Cardinality({id \in DOMAIN active_sessions :
                    ~is_expired(active_sessions[id], now)})

\* health_check: the "active_sessions" field of the answer
health_check_active_sessions == Cardinality(DOMAIN active_sessions)

----------------------------------------------------------------------------
(* cleanup_expired_sessions: one pass of the loop, up to asyncio.sleep     *)

ReaperCycle ==
    /\ reaperPc = "scan"
    /\ LET ids == expired_sessions(Store, now)
           st1 == cleanup_all(Store, ids)
       IN  /\ active_sessions' = st1.sessions
           /\ deleteTasks' = st1.tasks
           /\ evicted' = [id \in DOMAIN evicted \cup ids |->
                            IF id \in DOMAIN evicted THEN evicted[id]
                            ELSE "reaper"]
    /\ reaperPc' = "sleep"
    /\ UNCHANGED <<now, chatbots, nextId, documents, convCreated, files,
                   initReq, requests>>

----------------------------------------------------------------------------
(* R2RChatbot.delete_document, run as the task cleanup_session created     *)

\* up to the await of client.documents.delete
DeleteStart(id) ==
    /\ deleteTasks[id].pc = "scheduled"
    /\ files' = files \ {chatbots[id].user_id}
    /\ LET doc_id == chatbots[id].document_id
       IN  deleteTasks' =
             [deleteTasks EXCEPT ![id] =
                IF ~chatbots[id].client \/ ~Truthy(doc_id)
                THEN [@ EXCEPT !.pc = "done"]
                ELSE [@ EXCEPT !.pc = "awaiting", !.doc_id = doc_id]]
    /\ UNCHANGED <<now, active_sessions, chatbots, nextId, documents,
                   convCreated, initReq, requests, reaperPc, evicted>>

\* from the return of client.documents.delete (deleted = it did not raise)
DeleteReturned(id, deleted) ==
    /\ deleteTasks[id].pc = "awaiting"
    /\ deleteTasks' = [deleteTasks EXCEPT ![id].pc = "done"]
    /\ IF deleted
       THEN /\ documents' = documents \ {deleteTasks[id].doc_id}
            /\ chatbots' =
                 [chatbots EXCEPT ![id].document_id =
                    IF deleteTasks[id].doc_id = @ THEN None ELSE @]
       ELSE UNCHANGED <<documents, chatbots>>
    /\ UNCHANGED <<now, active_sessions, nextId, convCreated, files, initReq,
                   requests, reaperPc, evicted>>

----------------------------------------------------------------------------
(* send_message and its response generator generate_response               *)

Emit(req, chunk) == [req EXCEPT !.chunks = Append(@, chunk)]

Finish(req, chunk) == [Emit(req, chunk) EXCEPT !.pc = "done"]

\* the handler: get_session, then 404 or the StreamingResponse
SendMessage(r, session_id) ==
    /\ requests[r].pc = "idle"
    /\ LET st1 == get_session(Store, session_id, now)
           session == get_session_ret(Store, session_id, now)
       IN  /\ active_sessions' = st1.sessions
           /\ deleteTasks' = st1.tasks
           /\ requests' =
                [requests EXCEPT ![r] =
                   [@ EXCEPT !.session_id = session_id,
                             !.pc = IF session = NoSession
                                    THEN "notfound" ELSE "resolved"]]
           /\ evicted' = Removed(st1.sessions, "get_session")
    /\ UNCHANGED <<now, chatbots, nextId, documents, convCreated, files,
                   initReq, reaperPc>>

\* send_message_to_r2r up to its first await; a None return goes on to the
\* error chunk of generate_response
GenerateStart(r) ==
    /\ requests[r].pc = "resolved"
    /\ LET chatbot == chatbots[requests[r].session_id]
           doc_id == chatbot.document_id
           conv_id == chatbot.conversation_id
       IN  requests' =
             [requests EXCEPT ![r] =
                IF ~chatbot.client \/ ~Truthy(doc_id)
                THEN Finish(@, error_chunk)
                ELSE [@ EXCEPT !.doc_id = doc_id,
                               !.conv_id = conv_id,
                               !.backend_calls = @ + 1,
                               !.pc = IF conv_id = None
                                      THEN "conv_create" ELSE "agent"]]
    /\ UNCHANGED <<now, active_sessions, chatbots, nextId, deleteTasks,
                   documents, convCreated, files, initReq, reaperPc, evicted>>

\* str(conversation.results.id): the n-th conversation made for a facade
ConversationId(session_id, n) == <<session_id, n>>

\* the return of client.conversations.create (created = it did not raise)
ConversationCreated(r, created) ==
    /\ requests[r].pc = "conv_create"
    /\ LET sid == requests[r].session_id
           conv_id == ConversationId(sid, convCreated[sid] + 1)
       IN  /\ IF created
              THEN /\ convCreated' = [convCreated EXCEPT ![sid] = @ + 1]
                   /\ chatbots' =
                        [chatbots EXCEPT ![sid].conversation_id = conv_id]
                   /\ requests' =
                        [requests EXCEPT ![r] =
                           [@ EXCEPT !.conv_id = conv_id,
                                     !.backend_calls = @ + 1,
                                     !.pc = "agent"]]
              ELSE /\ requests' =
                        [requests EXCEPT ![r] =
                           Finish([@ EXCEPT !.outcome = "failed"],
                                  error_chunk)]
                   /\ UNCHANGED <<chatbots, convCreated>>
    /\ UNCHANGED <<now, active_sessions, nextId, deleteTasks, documents,
                   files, initReq, reaperPc, evicted>>

\* mutant: `if response is not None` in place of `if response`
generate_response_not_none(req, response, chatbot) ==
    IF req.outcome = "reply"
    THEN LET words == split(response)
         IN  IF words = <<>>
             THEN Finish(req, metadata_chunk(chatbot, req.session_id))
             ELSE [Emit(req, content_chunk(words, 1))
                     EXCEPT !.pc = "emitting"]
    ELSE Finish(req, error_chunk)

\* generate_response from the value of send_message_to_r2r to its first
\* yield
generate_response(req, response, chatbot) ==
    IF Truthy(response)
    THEN LET words == split(response)
         IN  IF words = <<>>
             THEN Finish(req, metadata_chunk(chatbot, req.session_id))
             ELSE [Emit(req, content_chunk(words, 1))
                     EXCEPT !.pc = "emitting"]
    ELSE Finish(req, error_chunk)

\* the backend's answers to client.retrieval.agent
AgentResults(replies) ==
    {[kind |-> "reply", content |-> c] : c \in replies}
    \cup {[kind |-> "failed", content |-> None]}

\* the return of client.retrieval.agent
AgentReturned(r, result) ==
    /\ requests[r].pc = "agent"
    /\ LET response == IF result.kind = "reply" THEN result.content ELSE None
           req == [requests[r] EXCEPT !.outcome = result.kind,
                                      !.response = response]
       IN  requests' =
             [requests EXCEPT ![r] =
                generate_response(req, response,
                                  chatbots[req.session_id])]
    /\ UNCHANGED <<now, active_sessions, chatbots, nextId, deleteTasks,
                   documents, convCreated, files, initReq, reaperPc, evicted>>

\* mutant: the generator ends after the last word, without the metadata
next_chunk_no_metadata(req, chatbot) ==
    LET words == split(req.response)
        i == Len(req.chunks) + 1
    IN  IF i <= Len(words)
        THEN Emit(req, content_chunk(words, i))
        ELSE [req EXCEPT !.pc = "done"]

\* generate_response from one yield to the next
next_chunk(req, chatbot) ==
    LET words == split(req.response)
        i == Len(req.chunks) + 1
    IN  IF i <= Len(words)
        THEN Emit(req, content_chunk(words, i))
        ELSE Finish(req, metadata_chunk(chatbot, req.session_id))

EmitNext(r) ==
    /\ requests[r].pc = "emitting"
    /\ requests' =
         [requests EXCEPT ![r] =
            next_chunk(@, chatbots[requests[r].session_id])]
    /\ UNCHANGED <<now, active_sessions, chatbots, nextId, deleteTasks,
                   documents, convCreated, files, initReq, reaperPc, evicted>>

\* mutant: a backend call cut short by the disconnect is made again
ClientDisconnect_retries(r) ==
    /\ requests[r].pc \in {"resolved", "conv_create", "agent", "emitting"}
    /\ requests' = [requests EXCEPT ![r].pc = IF @ = "agent"
                                              THEN "resolved"
                                              ELSE "cancelled"]
    /\ UNCHANGED <<now, active_sessions, chatbots, nextId, deleteTasks,
                   documents, convCreated, files, initReq, reaperPc, evicted>>

\* the client goes away: the response task is cancelled where it waits
ClientDisconnect(r) ==
    /\ requests[r].pc \in {"resolved", "conv_create", "agent", "emitting"}
    /\ requests' = [requests EXCEPT ![r].pc = "cancelled"]
    /\ UNCHANGED <<now, active_sessions, chatbots, nextId, deleteTasks,
                   documents, convCreated, files, initReq, reaperPc, evicted>>

----------------------------------------------------------------------------
(* The service *)

\* the session ids a client may name: those handed out, and an unknown one
NamedIds == {NoSession} \cup (1..nextId)

\* The service in an environment: reqs are the send-message requests the
\* clients make, cap the number of sessions they create, users the owners
\* they act for, docs the document ids the backend hands out, replies what
\* it may answer to a message
NextOf(reqs, cap, users, docs, replies) ==
    \/ \E d \in TimeSteps : Tick(d)
    \/ \E u \in users, c \in BOOLEAN, g \in BOOLEAN :
          nextId < cap /\ InitializeChatBegin(u, c, g)
    \/ \E res \in UploadResults(docs) : InitializeChatUpload(res)
    \/ \E id \in NamedIds : CloseChat(id)
    \/ \E id \in NamedIds : SessionStatus(id)
    \/ ReaperCycle
    \/ \E id \in SessionIds : DeleteStart(id)
    \/ \E id \in SessionIds, ok \in BOOLEAN : DeleteReturned(id, ok)
    \/ \E r \in reqs, id \in NamedIds : SendMessage(r, id)
    \/ \E r \in reqs : GenerateStart(r)
    \/ \E r \in reqs, ok \in BOOLEAN : ConversationCreated(r, ok)
    \/ \E r \in reqs, res \in AgentResults(replies) : AgentReturned(r, res)
    \/ \E r \in reqs : EmitNext(r)
    \/ \E r \in reqs : ClientDisconnect(r)

\* one owner opening up to MaxSessions sessions over the same document, and
\* one streaming request
Next == NextOf({1}, MaxSessions, {1}, {HexDocId}, {<<>>, <<"a">>})

Spec == Init /\ [][Next]_vars

\* one session, two concurrent streaming requests
NextConcurrent == NextOf(RequestIds, 1, {1}, {HexDocId}, Replies)

SpecConcurrent == Init /\ [][NextConcurrent]_vars

\* one session, one streaming request, every reply up to MaxReplyLen
NextStream == NextOf({1}, 1, {1}, {HexDocId}, StreamReplies)

SpecStream == Init /\ [][NextStream]_vars

\* one owner opening and closing sessions over a backend that hands out a
\* document id in the form of a UUID and the id "doc-123"; no messages
NextUpload ==
    \/ \E d \in TimeSteps : Tick(d)
    \/ \E c \in BOOLEAN, g \in BOOLEAN : InitializeChatBegin(1, c, g)
    \/ \E res \in UploadResults(DocIds) : InitializeChatUpload(res)
    \/ \E id \in NamedIds : CloseChat(id)
    \/ ReaperCycle
    \/ \E id \in SessionIds : DeleteStart(id)
    \/ \E id \in SessionIds, ok \in BOOLEAN : DeleteReturned(id, ok)

SpecUpload == Init /\ [][NextUpload]_vars

\* one owner opening, looking up and closing sessions, no messages; the
\* event loop runs the Reaper task whenever its sleep is over
NextReaper ==
    \/ \E d \in TimeSteps : Tick(d)
    \/ \E c \in BOOLEAN, g \in BOOLEAN : InitializeChatBegin(1, c, g)
    \/ \E res \in UploadResults({HexDocId}) : InitializeChatUpload(res)
    \/ \E id \in NamedIds : CloseChat(id)
    \/ \E id \in NamedIds : SessionStatus(id)
    \/ ReaperCycle
    \/ \E id \in SessionIds : DeleteStart(id)
    \/ \E id \in SessionIds, ok \in BOOLEAN : DeleteReturned(id, ok)

SpecReaper == Init /\ [][NextReaper]_vars /\ WF_vars(ReaperCycle)

\* the streaming scenario: one session of owner 42, one message, and a
\* backend that answers "Hi there friend", one word, or nothing
NextScenario ==
    NextOf({1}, 1, {42}, {HexDocId},
           {HiThereFriend, <<"a">>, <<>>})

SpecScenario == Init /\ [][NextScenario]_vars

\* the next step of the response generator of request r: the event loop
\* runs it, and the backend answers its calls
GeneratorStep(r) ==
    \/ GenerateStart(r)
    \/ \E ok \in BOOLEAN : ConversationCreated(r, ok)
    \/ \E res \in AgentResults(Replies) : AgentReturned(r, res)
    \/ EmitNext(r)

\* one session, one streaming request whose generator is always run on and
\* whose backend calls always return or fail
NextAnswered == NextOf({1}, 1, {1}, {HexDocId}, Replies)

SpecAnswered ==
    Init /\ [][NextAnswered]_vars /\ WF_vars(GeneratorStep(1))

TypeOK ==
    /\ now \in 0..MaxTime
    /\ nextId \in 0..MaxSessions
    /\ DOMAIN chatbots = 1..nextId
    /\ DOMAIN active_sessions \subseteq 1..nextId
    /\ DOMAIN evicted = (1..nextId) \ DOMAIN active_sessions

----------------------------------------------------------------------------
(* Claims *)

\* C1: every session that was ever inserted in the store has had
\* delete_document invoked for it exactly once if it has left the store and
\* not at all while it is in the store, whichever of get_session, close_chat
\* and the Reaper removed it.
C1_TeardownExactlyOnce ==
    \A id \in 1..nextId :
        deleteTasks[id].invoked =
            IF id \in DOMAIN active_sessions THEN 0 ELSE 1

\* C1 witness: one session was removed by an expiry found in get_session and
\* another one by the Reaper, each with one teardown.
C1_Witness ==
    \E i, j \in DOMAIN evicted :
        /\ evicted[i] = "get_session"
        /\ evicted[j] = "reaper"
        /\ deleteTasks[i].invoked = 1
        /\ deleteTasks[j].invoked = 1

\* the step uses the session or the facade of request r: it calls
\* send_message_to_r2r, stores the new conversation id and calls
\* retrieval.agent, or reads the session for the metadata chunk
UsesSession(r) ==
    \/ /\ requests[r].pc = "resolved"
       /\ requests'[r].pc \notin {"resolved", "cancelled"}
    \/ /\ requests[r].pc = "conv_create"
       /\ requests'[r].pc = "agent"
    \/ /\ Len(requests'[r].chunks) > Len(requests[r].chunks)
       /\ requests'[r].chunks[Len(requests'[r].chunks)].type = "metadata"

\* C2: once a session id has been removed from the store, no request uses
\* the Session object or its facade any more: every step of a send-message
\* stream that uses them finds the session in the store.
C2_NoUseAfterRemoval ==
    [][\A r \in RequestIds :
          UsesSession(r) =>
              requests[r].session_id \in DOMAIN active_sessions]_vars

\* C3: at most one conversation is created on the backend (by a call of
\* conversations.create that returns) for every session.
C3_ConversationCreatedAtMostOnce ==
    \A id \in SessionIds : convCreated[id] <= 1

----------------------------------------------------------------------------
(* Chunk sequences *)

Chunks(r) == requests[r].chunks

Done(r) == requests[r].pc = "done"

FinalChunks(cs) == {i \in 1..Len(cs) : cs[i].is_final}

\* C4 as claimed: every complete chunk sequence holds exactly one chunk
\* with is_final = true, and it is the last one.
C4_ExactlyOneFinalChunk ==
    \A r \in RequestIds :
        Done(r) => FinalChunks(Chunks(r)) = {Len(Chunks(r))}

\* C4 as amended: every complete chunk sequence ends with one terminal
\* chunk, of type metadata or error, with is_final = true; every chunk
\* before it is a content chunk, and the only one of these with
\* is_final = true is the last of them, the chunk of the reply's last word.
\* A sequence still being emitted holds content chunks only.
C4_OneTerminalChunkLast ==
    \A r \in RequestIds :
        LET cs == Chunks(r)
            n == Len(cs)
        IN  /\ Done(r) =>
                /\ n >= 1
                /\ cs[n].type \in {"metadata", "error"}
                /\ cs[n].is_final
                /\ \A i \in 1..(n - 1) :
                      /\ cs[i].type = "content"
                      /\ cs[i].is_final <=> (i = n - 1)
            /\ ~Done(r) => \A i \in 1..n : cs[i].type = "content"

\* C4 witness: a complete sequence of two content chunks, the second one
\* final, and the metadata chunk.
C4_Witness ==
    \E r \in RequestIds :
        /\ Done(r)
        /\ Len(Chunks(r)) = 3
        /\ Chunks(r)[2].type = "content"
        /\ Chunks(r)[2].is_final
        /\ ~Chunks(r)[1].is_final
        /\ Chunks(r)[3].type = "metadata"

\* the payloads of the content chunks of cs, in the order of emission
RECURSIVE ContentPayload(_)
ContentPayload(cs) ==
    IF cs = <<>> THEN <<>>
    ELSE (IF Head(cs).type = "content" THEN Head(cs).data.text ELSE <<>>)
         \o ContentPayload(Tail(cs))

\* s with every run of whitespace turned into one space and none at either
\* end: two strings are equal word for word iff their normal forms are equal
RECURSIVE NormalizeFrom(_, _, _, _)
NormalizeFrom(s, i, acc, gap) ==
    IF i > Len(s) THEN acc
    ELSE IF s[i] \in Whitespace
         THEN NormalizeFrom(s, i + 1, acc, acc # <<>>)
         ELSE NormalizeFrom(s, i + 1,
                            (IF gap THEN Append(acc, " ") ELSE acc)
                                \o <<s[i]>>,
                            FALSE)

Normalize(s) == NormalizeFrom(s, 1, <<>>, FALSE)

\* the number of words of s: the places where a word starts
WordCount(s) ==
    Cardinality({i \in 1..Len(s) :
                    /\ s[i] \notin Whitespace
                    /\ (i = 1 \/ s[i - 1] \in Whitespace)})

\* t is one word followed by one space
OneWordPayload(t) ==
    /\ Len(t) >= 2
    /\ t[Len(t)] = " "
    /\ \A i \in 1..(Len(t) - 1) : t[i] \notin Whitespace

\* C5: a complete sequence for a non-empty reply is one content chunk per
\* word of the reply, each holding one word, whose payloads put together
\* are the reply word for word (whitespace aside), and then exactly one
\* metadata chunk with conversation_id, document_id and session_id, which is
\* the last chunk.
C5_ContentReconstructsReply ==
    \A r \in RequestIds :
        (Done(r) /\ Truthy(requests[r].response)) =>
            LET cs == Chunks(r)
                n == Len(cs)
            IN  /\ n = WordCount(requests[r].response) + 1
                /\ \A i \in 1..(n - 1) :
                      /\ cs[i].type = "content"
                      /\ OneWordPayload(cs[i].data.text)
                /\ Normalize(ContentPayload(cs))
                      = Normalize(requests[r].response)
                /\ cs[n].type = "metadata"
                /\ DOMAIN cs[n].data
                      = {"conversation_id", "document_id", "session_id"}
                /\ cs[n].data.session_id = requests[r].session_id

\* C5 witness: a complete sequence for a reply of two different words with
\* a line break between them.
C5_Witness ==
    \E r \in RequestIds :
        /\ Done(r)
        /\ requests[r].response = <<"a", "\n", "b">>
        /\ Len(Chunks(r)) = 3

\* C6: when the backend call fails, is not made for want of a document id,
\* or returns an empty reply, the complete sequence is one chunk, of type
\* error and with is_final = true.
C6_ErrorIsTheOnlyChunk ==
    \A r \in RequestIds :
        (Done(r) /\ ~Truthy(requests[r].response)) =>
            /\ Len(Chunks(r)) = 1
            /\ Chunks(r)[1].type = "error"
            /\ Chunks(r)[1].is_final

\* C6 witness: the backend answered with an empty reply and the sequence is
\* complete.
C6_Witness ==
    \E r \in RequestIds :
        /\ Done(r)
        /\ requests[r].outcome = "reply"
        /\ requests[r].response = <<>>
        /\ Len(Chunks(r)) = 1

----------------------------------------------------------------------------
(* Resolution of the session *)

\* the step is the handler of send-message request r
Resolves(r) == requests[r].pc = "idle" /\ requests'[r].pc # "idle"

\* C7: a send-message request ends with "not found" exactly when its
\* session id is absent from the store or expired; it then has no chunk and
\* no conversation or message call on the backend, then and ever after, and
\* the step puts no session in the store.
C7_NotFoundEndsRequest ==
    [][\A r \in RequestIds :
          /\ Resolves(r) =>
                LET sid == requests'[r].session_id
                    missing ==
                        \/ sid \notin DOMAIN active_sessions
                        \/ is_expired(active_sessions[sid], now)
                IN  /\ missing <=> (requests'[r].pc = "notfound")
                    /\ missing =>
                          /\ requests'[r].chunks = <<>>
                          /\ requests'[r].backend_calls = 0
                          /\ convCreated' = convCreated
                          /\ DOMAIN active_sessions'
                                \subseteq DOMAIN active_sessions \ {sid}
          /\ requests[r].pc = "notfound" => requests'[r] = requests[r]
      ]_vars

\* C7 witness: a request ended with "not found" for a session that a client
\* had closed.
C7_Witness ==
    \E r \in RequestIds :
        /\ requests[r].pc = "notfound"
        /\ requests[r].session_id \in DOMAIN evicted
        /\ evicted[requests[r].session_id] = "close_chat"
        /\ requests[r].chunks = <<>>

\* C8 as claimed: a session of the store is expired iff
\* now - last_activity >= TIMEOUT.
C8_ExpiredFromTimeout ==
    \A id \in DOMAIN active_sessions :
        is_expired(active_sessions[id], now)
            <=> (now - active_sessions[id].last_activity >= SESSION_TIMEOUT)

\* C8 as amended: a session is treated as expired iff
\* now - last_activity > TIMEOUT.  get_session answers "not found" for a
\* session of the store exactly then, a session it returns has just been
\* refreshed, and a Reaper cycle leaves in the store exactly the sessions
\* with now - last_activity <= TIMEOUT: one that is looked at exactly
\* TIMEOUT after its last activity is still active.
C8_ExpiredAfterTimeout ==
    [][/\ \A r \in RequestIds :
             Resolves(r) =>
                LET sid == requests'[r].session_id
                IN  /\ sid \in DOMAIN active_sessions =>
                          ((requests'[r].pc = "notfound")
                             <=> (now - active_sessions[sid].last_activity
                                     > SESSION_TIMEOUT))
                    /\ requests'[r].pc = "resolved" =>
                          now' - active_sessions'[sid].last_activity
                             < SESSION_TIMEOUT
       /\ (reaperPc = "scan" /\ reaperPc' = "sleep") =>
             DOMAIN active_sessions' =
                {id \in DOMAIN active_sessions :
                    now - active_sessions[id].last_activity
                       <= SESSION_TIMEOUT}
      ]_vars

\* C8 witness: a Reaper cycle has just run and left in the store a session
\* whose last activity is exactly TIMEOUT ago.
C8_Witness ==
    /\ reaperPc = "sleep"
    /\ \E id \in DOMAIN active_sessions :
          now - active_sessions[id].last_activity = SESSION_TIMEOUT

\* C9: get_session, as called by send-message, in one step: a session that
\* is in the store and not expired is returned with last_activity = now and
\* stays in the store, with no teardown; one that is in the store and
\* expired leaves the store and has its teardown scheduled, and the answer
\* is "not found"; a session that is returned is in the store and has never
\* been evicted.
C9_GetSessionAtomic ==
    [][\A r \in RequestIds :
          Resolves(r) =>
             LET sid == requests'[r].session_id
                 in == sid \in DOMAIN active_sessions
                 expired == in /\ is_expired(active_sessions[sid], now)
             IN  /\ (in /\ ~expired) =>
                       /\ requests'[r].pc = "resolved"
                       /\ sid \in DOMAIN active_sessions'
                       /\ active_sessions'[sid].last_activity = now
                       /\ deleteTasks' = deleteTasks
                 /\ expired =>
                       /\ requests'[r].pc = "notfound"
                       /\ sid \notin DOMAIN active_sessions'
                       /\ deleteTasks'[sid].pc = "scheduled"
                 /\ requests'[r].pc = "resolved" =>
                       /\ sid \in DOMAIN active_sessions'
                       /\ sid \notin DOMAIN evicted'
      ]_vars

\* C9 witness: get_session found a session expired; it is out of the store,
\* its teardown is scheduled and the request ended with "not found".
C9_Witness ==
    \E r \in RequestIds :
        LET sid == requests[r].session_id
        IN  /\ requests[r].pc = "notfound"
            /\ sid \in DOMAIN evicted
            /\ evicted[sid] = "get_session"
            /\ deleteTasks[sid].pc = "scheduled"

\* C10: a session id that the Reaper evicted is never in the store again
\* (no create_session puts a session under it), and every later
\* send-message that names it ends with "not found".
C10_ReapedIdsStayOut ==
    [][\A id \in DOMAIN evicted' :
          evicted'[id] = "reaper" =>
             /\ id \notin DOMAIN active_sessions'
             /\ \A r \in RequestIds :
                   (Resolves(r) /\ requests'[r].session_id = id
                        /\ id \in DOMAIN evicted) =>
                      requests'[r].pc = "notfound"
      ]_vars

\* C10 witness: a send-message that named a session the Reaper had evicted
\* ended with "not found", and a session under another id is in the store.
C10_Witness ==
    \E r \in RequestIds :
        LET sid == requests[r].session_id
        IN  /\ requests[r].pc = "notfound"
            /\ sid \in DOMAIN evicted
            /\ evicted[sid] = "reaper"
            /\ active_sessions # <<>>

----------------------------------------------------------------------------
(* Answers of the handlers *)

\* the sessions get_session would return at this moment
ActiveIds ==
    {id \in DOMAIN active_sessions : ~is_expired(active_sessions[id], now)}

\* C11: close-chat on an active session answers success, removes the session
\* and invokes its teardown once; a second close-chat on the same id, directly
\* after it or at any later moment, answers "not found" and changes nothing,
\* so that the teardown has been invoked by the first call only.
C11_CloseTwice ==
    /\ \A id \in ActiveIds :
          LET first == close_chat(Store, id, now)
              second == close_chat(first.store, id, now)
          IN  /\ first.status = "success"
              /\ id \notin DOMAIN first.store.sessions
              /\ first.store.tasks[id].invoked = 1
              /\ second.status = "not_found"
              /\ second.store = first.store
    /\ \A id \in DOMAIN evicted :
          evicted[id] = "close_chat" =>
             /\ close_chat(Store, id, now)
                   = [store |-> Store, status |-> "not_found"]
             /\ deleteTasks[id].invoked = 1

\* C11 witness: a session was closed by close-chat, its teardown has run to
\* the end, and another session is active.
C11_Witness ==
    /\ \E id \in DOMAIN evicted :
          /\ evicted[id] = "close_chat"
          /\ deleteTasks[id].pc = "done"
    /\ ActiveIds # {}

----------------------------------------------------------------------------
(* Teardown and the backend *)

\* the teardown of session id is invoked in this step
TeardownInvoked(id) == deleteTasks'[id].invoked > deleteTasks[id].invoked

\* C12: the step that invokes the teardown of a session, whoever makes it,
\* takes the session out of the store, and a session whose teardown has been
\* invoked is out of the store whatever the state of its delete_document
\* task: not yet started, waiting for the backend, or returned after a
\* delete that succeeded or failed.  The steps of the task never touch the
\* store.
C12_TeardownAlwaysRemoves ==
    [][/\ \A id \in SessionIds :
             /\ TeardownInvoked(id) =>
                   /\ id \in DOMAIN active_sessions
                   /\ id \notin DOMAIN active_sessions'
             /\ deleteTasks'[id].pc \in {"scheduled", "awaiting", "done"} =>
                   id \notin DOMAIN active_sessions'
       /\ (\E id \in SessionIds :
              /\ deleteTasks[id].pc \in {"scheduled", "awaiting"}
              /\ deleteTasks'[id].pc # deleteTasks[id].pc) =>
             active_sessions' = active_sessions
      ]_vars

\* C12 witness: the backend delete of one removed session failed (its facade
\* still holds the document id) and that of another one is pending.
C12_Witness ==
    \E i, j \in DOMAIN evicted :
        /\ deleteTasks[i].pc = "done"
        /\ Truthy(chatbots[i].document_id)
        /\ deleteTasks[j].pc = "awaiting"
        /\ i \notin DOMAIN active_sessions
        /\ j \notin DOMAIN active_sessions

----------------------------------------------------------------------------
(* initialize-chat *)

\* C13: every session of the store has a facade with a non-empty
\* document_id, and whenever an initialize-chat request waits for its
\* upload, whatever the backend answers (created, already exists with an id
\* that can or cannot be recovered, failure): if the upload returns no id
\* the request answers with an error and the store stays as it is, and if it
\* returns an id the request answers success and the store gains the one
\* new session.
C13_SessionOnlyAfterUpload ==
    /\ \A id \in DOMAIN active_sessions : Truthy(chatbots[id].document_id)
    /\ initReq.pc = "uploading" =>
          \A result \in UploadResults(DocIds) :
             LET document_id == upload_document_to_r2r(result)
                 answer == initialize_chat(active_sessions, nextId + 1,
                                           initReq.user_id, document_id, now)
             IN  /\ ~Truthy(document_id) =>
                       /\ answer.status = "error"
                       /\ answer.sessions = active_sessions
                 /\ Truthy(document_id) =>
                       /\ answer.status = "success"
                       /\ DOMAIN answer.sessions
                             = DOMAIN active_sessions \cup {nextId + 1}
                       /\ \A id \in DOMAIN active_sessions :
                             answer.sessions[id] = active_sessions[id]

\* C13 witness: an initialize-chat request generated its document, its
\* upload failed, and no session was ever created.
C13_Witness ==
    /\ initReq.pc = "idle"
    /\ files # {}
    /\ nextId = 0
    /\ active_sessions = <<>>

----------------------------------------------------------------------------
(* Recovery of the id of a document that already exists *)

\* the ids a backend may name in its message: those of the model, and every
\* string up to MaxIdLen over a few characters in and out of [a-f0-9-]
IdAlphabet == {"a", "1", "-", "o", "F"}
ReportedIds == DocIds \cup (SeqsUpTo(IdAlphabet, MaxIdLen) \ {<<>>})

\* d is made of lower-case hexadecimal digits and hyphens only
UuidForm(d) ==
    \A i \in 1..Len(d) :
        d[i] \in {"0", "1", "2", "3", "4", "5", "6", "7", "8", "9",
                  "a", "b", "c", "d", "e", "f", "-"}

AlreadyExists(d) == [kind |-> "exists", id |-> d]

\* C14 as claimed: when an upload fails with "Document <id> already
\* exists", upload_document_to_r2r returns <id>, for every document the
\* backend stores.
C14_RecoversEveryId ==
    initReq.pc = "uploading" =>
        \A d \in documents : upload_document_to_r2r(AlreadyExists(d)) = d

\* C14 as amended: when an upload fails with "Document <id> already
\* exists", upload_document_to_r2r returns <id> if <id> is made of the
\* characters a-f, 0-9 and "-" only, and None if not, as for "doc-123"; a
\* session is then created only in the first case, with <id> as the
\* document_id of its facade.
C14_RecoversUuidFormIds ==
    /\ initReq.pc = "uploading" =>
          \A d \in ReportedIds :
             LET document_id == upload_document_to_r2r(AlreadyExists(d))
                 answer == initialize_chat(active_sessions, nextId + 1,
                                           initReq.user_id, document_id, now)
             IN  /\ document_id = IF UuidForm(d) THEN d ELSE None
                 /\ answer.status
                       = IF UuidForm(d) THEN "success" ELSE "error"
    /\ \A id \in DOMAIN chatbots :
          chatbots[id].document_id \in DocIds \cup {None}

\* C14 witness: two sessions are in the store over the same document, so
\* the upload of the second one found the document on the backend and
\* recovered its id.
C14_Witness ==
    /\ documents = {HexDocId}
    /\ \E i, j \in DOMAIN active_sessions :
          /\ i # j
          /\ chatbots[i].document_id = HexDocId
          /\ chatbots[j].document_id = HexDocId

----------------------------------------------------------------------------
(* The Reaper *)

\* C15: the Reaper task never ends: every sleep that is over is followed by
\* a scan cycle, and every session that is in the store and expired is
\* eventually out of the store, whether or not anybody names it again.
C15_ReaperRemovesExpired ==
    /\ (reaperPc = "scan") ~> (reaperPc = "sleep")
    /\ \A id \in SessionIds :
          (id \in DOMAIN active_sessions
             /\ is_expired(active_sessions[id], now))
          ~> (id \notin DOMAIN active_sessions)

\* C15 witness: the Reaper has evicted a session, the store is empty and the
\* Reaper sleeps.
C15_Witness ==
    /\ reaperPc = "sleep"
    /\ active_sessions = <<>>
    /\ \E id \in DOMAIN evicted : evicted[id] = "reaper"

----------------------------------------------------------------------------
(* Termination of a stream *)

TerminalLast(cs) ==
    /\ cs # <<>>
    /\ cs[Len(cs)].type \in {"metadata", "error"}

\* C16: a send-message request that resolved its session comes to its end
\* with a terminal chunk (metadata or error) unless the client disconnects:
\* it is eventually done or cancelled, a request that is done has a
\* terminal chunk as its last one, and this whether or not its session is
\* still in the store.
C16_StreamEndsWithTerminalChunk ==
    /\ \A r \in RequestIds :
          (requests[r].pc = "resolved")
          ~> (\/ requests[r].pc = "cancelled"
              \/ Done(r) /\ TerminalLast(Chunks(r)))
    /\ [](\A r \in RequestIds : Done(r) => TerminalLast(Chunks(r)))

\* C16 witness: the session was closed and its document deleted between
\* the answer of the handler and the start of the generator, which found no
\* document id, made no backend call and ended with the error chunk.
C16_Witness ==
    \E r \in RequestIds :
        /\ Done(r)
        /\ Chunks(r) = <<error_chunk>>
        /\ requests[r].backend_calls = 0
        /\ requests[r].session_id \in DOMAIN evicted
        /\ evicted[requests[r].session_id] = "close_chat"

----------------------------------------------------------------------------
(* health *)

\* C17 as claimed: the count of the health endpoint is the number of
\* entries of the store with now - last_activity within TIMEOUT.
C17_CountsActiveOnly ==
    health_check_active_sessions =
        Cardinality({id \in DOMAIN active_sessions :
                        now - active_sessions[id].last_activity
                           <= SESSION_TIMEOUT})

\* C17 as amended: the count of the health endpoint is the number of
\* sessions created whose teardown has not been invoked, expired or not; it
\* is never less than the number of active sessions and equal to it when
\* the Reaper has made its scan for the present time.
C17_CountsStoreEntries ==
    /\ health_check_active_sessions =
          nextId - Cardinality({id \in 1..nextId :
                                   deleteTasks[id].invoked > 0})
    /\ health_check_active_sessions >= Cardinality(ActiveIds)
    /\ reaperPc = "sleep" =>
          health_check_active_sessions = Cardinality(ActiveIds)

\* C17 witness: the store holds one active session and one that is expired
\* and not yet reaped, and the health endpoint counts two.
C17_Witness ==
    /\ health_check_active_sessions = 2
    /\ Cardinality(ActiveIds) = 1
    /\ reaperPc = "scan"

----------------------------------------------------------------------------
(* Eviction and the other sessions *)

\* C18: a step that evicts a session A, made by the Reaper, by get_session
\* or by close-chat, leaves every other entry B of the store as it is (B
\* leaves the store in the same step only if it is expired itself: the
\* Reaper evicts it in the same pass), leaves the facade of B as it is, and
\* leaves every send-message request against B where it is, with the chunks
\* it has emitted.
C18_EvictionLeavesOthersAlone ==
    [][\A A \in DOMAIN active_sessions \ DOMAIN active_sessions' :
          \A B \in DOMAIN active_sessions \ {A} :
             /\ B \notin DOMAIN active_sessions' =>
                   is_expired(active_sessions[B], now)
             /\ B \in DOMAIN active_sessions' =>
                   active_sessions'[B] = active_sessions[B]
             /\ chatbots'[B] = chatbots[B]
             /\ \A r \in RequestIds :
                   requests[r].session_id = B => requests'[r] = requests[r]
      ]_vars

\* C18 witness: a request against a session of the store is in the middle
\* of its chunks, and the Reaper has evicted another session.
C18_Witness ==
    \E r \in RequestIds, A \in DOMAIN evicted :
        /\ evicted[A] = "reaper"
        /\ requests[r].pc = "emitting"
        /\ requests[r].session_id \in DOMAIN active_sessions
        /\ requests[r].session_id # A

----------------------------------------------------------------------------
(* Client disconnect *)

\* the step issues the retrieval.agent call of request r
IssuesAgentCall(r) ==
    requests'[r].pc = "agent" /\ requests[r].pc # "agent"

----------------------------------------------------------------------------
(* The content chunks, word by word *)

Text(w) == [text |-> w]

\* C20: in every stream of a reply of n words, complete or not, the i-th
\* chunk is a content chunk with is_final = true if and only if i = n; the
\* complete stream of the reply "Hi there friend" is "Hi ", "there " and
\* "friend ", the third one alone marked final, and then one metadata chunk
\* with the conversation_id of the session's facade.
C20_FinalIffLastWord ==
    \A r \in RequestIds :
        LET cs == Chunks(r)
            n == WordCount(requests[r].response)
        IN  /\ \A i \in 1..Len(cs) :
                  cs[i].type = "content" =>
                     /\ i <= n
                     /\ cs[i].is_final <=> (i = n)
            /\ (Done(r) /\ requests[r].response = HiThereFriend) =>
                  /\ Len(cs) = 4
                  /\ cs[1] = [type |-> "content", is_final |-> FALSE,
                               data |-> Text(<<"H", "i", " ">>)]
                  /\ cs[2] = [type |-> "content", is_final |-> FALSE,
                               data |-> Text(<<"t", "h", "e", "r", "e", " ">>)]
                  /\ cs[3] = [type |-> "content", is_final |-> TRUE,
                               data |-> Text(<<"f", "r", "i", "e", "n", "d",
                                               " ">>)]
                  /\ cs[4].type = "metadata"
                  /\ Truthy(cs[4].data.conversation_id)
                  /\ cs[4].data.conversation_id
                        = chatbots[requests[r].session_id].conversation_id

\* C20 witness: the stream of "Hi there friend" for owner 42 is complete.
C20_Witness ==
    \E r \in RequestIds :
        /\ Done(r)
        /\ requests[r].response = HiThereFriend
        /\ Len(Chunks(r)) = 4
        /\ chatbots[requests[r].session_id].user_id = 42

----------------------------------------------------------------------------
(* One Reaper cycle *)

\* the step is one pass of the Reaper
ReaperPass == reaperPc = "scan" /\ reaperPc' = "sleep"

\* C21: one pass of the Reaper takes out of the store exactly the entries
\* with now - last_activity > TIMEOUT, creates for each of them the one
\* delete_document task that a close-chat creates, and leaves the other
\* entries and their tasks as they are; after the pass, and until time moves
\* on, no entry of the store is expired.
C21_ReaperPassRemovesExpiredOnly ==
    [][/\ ReaperPass =>
             \A id \in DOMAIN active_sessions :
                IF now - active_sessions[id].last_activity > SESSION_TIMEOUT
                THEN /\ id \notin DOMAIN active_sessions'
                     /\ deleteTasks'[id] =
                           [pc |-> "scheduled", doc_id |-> None,
                            invoked |-> deleteTasks[id].invoked + 1]
                     /\ deleteTasks'[id] = close_chat(
                           [sessions |-> [active_sessions EXCEPT
                                            ![id].last_activity = now],
                            tasks |-> deleteTasks],
                           id, now).store.tasks[id]
                ELSE /\ id \in DOMAIN active_sessions'
                     /\ active_sessions'[id] = active_sessions[id]
                     /\ deleteTasks'[id] = deleteTasks[id]
       /\ reaperPc' = "sleep" =>
             \A id \in DOMAIN active_sessions' :
                now' - active_sessions'[id].last_activity <= SESSION_TIMEOUT
      ]_vars

\* C21 witness: a pass of the Reaper is over; it has evicted a session and
\* kept one whose last activity is exactly TIMEOUT ago, while the teardown
\* of the evicted one is scheduled.
C21_Witness ==
    /\ reaperPc = "sleep"
    /\ \E A \in DOMAIN evicted, B \in DOMAIN active_sessions :
          /\ evicted[A] = "reaper"
          /\ deleteTasks[A].pc = "scheduled"
          /\ now - active_sessions[B].last_activity = SESSION_TIMEOUT

----------------------------------------------------------------------------
(* cleanup_session of an absent id *)

\* C22: cleanup_session of an id that is not in the store, never created or
\* already removed, gives back the store and the tasks as they are; a scan
\* over any list of ids, absent ones among them, does what the scan over
\* the ids that are present does, and leaves no session with more than one
\* teardown.
C22_CleanupAbsentIsNoOp ==
    /\ \A id \in SessionIds \ DOMAIN active_sessions :
          cleanup_session(Store, id) = Store
    /\ \A ids \in SUBSET SessionIds :
          LET st1 == cleanup_all(Store, ids)
          IN  /\ st1 = cleanup_all(Store, ids \cap DOMAIN active_sessions)
              /\ \A id \in SessionIds : st1.tasks[id].invoked <= 1

\* C22 witness: a client has closed one session, another one is expired in
\* the store and the scan of the Reaper is due.
C22_Witness ==
    /\ reaperPc = "scan"
    /\ \E A \in DOMAIN evicted, B \in DOMAIN active_sessions :
          /\ evicted[A] = "close_chat"
          /\ is_expired(active_sessions[B], now)

----------------------------------------------------------------------------
(* Replies without words *)

\* C23: a chunk sequence whose last chunk is a metadata chunk holds at
\* least one content chunk before it; no sequence is the metadata chunk
\* alone.
C23_MetadataAfterContent ==
    \A r \in RequestIds :
        LET cs == Chunks(r)
        IN  (cs # <<>> /\ cs[Len(cs)].type = "metadata") =>
               /\ Len(cs) >= 2
               /\ \E i \in 1..(Len(cs) - 1) : cs[i].type = "content"

----------------------------------------------------------------------------
(* Teardown and the documents of the other sessions *)

\* C24: no step of a delete_document task deletes from the backend the
\* document of a session that is in the store, nor removes the local
\* document file of the owner of a session that is in the store.
C24_TeardownSparesOtherDocuments ==
    [][\A B \in DOMAIN active_sessions :
          /\ chatbots[B].document_id \in documents =>
                chatbots[B].document_id \in documents'
          /\ active_sessions[B].user_id \in files =>
                active_sessions[B].user_id \in files'
      ]_vars

----------------------------------------------------------------------------
(* The metadata chunk *)

\* C25: in every metadata chunk, document_id and conversation_id are not
\* None and are the document id and the conversation id that the request
\* used for its retrieval.agent call.
C25_MetadataNamesWhatWasUsed ==
    \A r \in RequestIds :
        \A i \in 1..Len(Chunks(r)) :
            Chunks(r)[i].type = "metadata" =>
               /\ Truthy(Chunks(r)[i].data.document_id)
               /\ Chunks(r)[i].data.document_id = requests[r].doc_id
               /\ Truthy(Chunks(r)[i].data.conversation_id)
               /\ Chunks(r)[i].data.conversation_id = requests[r].conv_id

====
